---- MODULE Spec2Model ----
(***************************************************************************)
(* CollectTODO: a model of the scanner (scanTodos, isInBlacklist), the     *)
(* reconciler (updateTodos), the store (loadTracker, saveTracker) and of   *)
(* main, which runs them in one pass.                                      *)
(*                                                                         *)
(* Strings are sequences of one-character strings, so that the code's      *)
(* string operations (Sprintf, HasPrefix, ToLower, Base, Ext, Split,       *)
(* TrimSpace, the marker pattern, the JSON text of the store) are computed *)
(* character by character as the code computes them.                       *)
(***************************************************************************)
EXTENDS Integers, Sequences, FiniteSets, TLC

(***************************************************************************)
(* Strings                                                                 *)
(***************************************************************************)

\* A Go string literal as a sequence of characters.
Str(s) == [i \in 1..Len(s) |-> SubSeq(s, i, i)]

\* One byte that is not valid UTF-8 (0xFF), and the Unicode replacement rune.
BadByte == "xFF"
ReplacementRune == "uFFFD"

Max(S) == CHOOSE x \in S : \A y \in S : y <= x
Min(S) == CHOOSE x \in S : \A y \in S : x <= y

\* strings.HasPrefix
HasPrefix(s, prefix) ==
    /\ Len(prefix) <= Len(s)
    /\ SubSeq(s, 1, Len(prefix)) = prefix

Upper == Str("ABCDEFGHIJKLMNOPQRSTUVWXYZ")
Lower == Str("abcdefghijklmnopqrstuvwxyz")
Digits == Str("0123456789")

\* The position of each character of an alphabet in it.
PositionIn(alphabet) ==
    [c \in {alphabet[i] : i \in 1..Len(alphabet)} |->
        CHOOSE i \in 1..Len(alphabet) : alphabet[i] = c]
UpperPos == PositionIn(Upper)
LowerPos == PositionIn(Lower)
DigitPos == PositionIn(Digits)

\* strings.ToLower
ToLowerChar(c) == IF c \in DOMAIN UpperPos THEN Lower[UpperPos[c]] ELSE c
ToLower(s) == [i \in 1..Len(s) |-> ToLowerChar(s[i])]

\* The byte value that orders the characters (ASCII; the two non-ASCII
\* characters sort after every ASCII one).
Code(c) ==
    IF c \in DOMAIN UpperPos THEN 64 + UpperPos[c]
    ELSE IF c \in DOMAIN LowerPos THEN 96 + LowerPos[c]
    ELSE IF c \in DOMAIN DigitPos THEN 47 + DigitPos[c]
    ELSE CASE c = " " -> 32
           [] c = "\"" -> 34
           [] c = "," -> 44
           [] c = "-" -> 45
           [] c = "." -> 46
           [] c = "/" -> 47
           [] c = ":" -> 58
           [] c = "[" -> 91
           [] c = "\\" -> 92
           [] c = "]" -> 93
           [] c = "_" -> 95
           [] c = "{" -> 123
           [] c = "|" -> 124
           [] c = "}" -> 125
           [] c = ReplacementRune -> 239
           [] OTHER -> 255

\* s < t, the comparison of Go strings (byte-wise).
RECURSIVE StrLess(_, _)
StrLess(s, t) ==
    IF t = <<>> THEN FALSE
    ELSE IF s = <<>> THEN TRUE
    ELSE IF Code(Head(s)) # Code(Head(t)) THEN Code(Head(s)) < Code(Head(t))
    ELSE StrLess(Tail(s), Tail(t))

\* strconv.Itoa, the %d verb
RECURSIVE Itoa(_)
Itoa(n) == IF n < 10 THEN <<Digits[n + 1]>>
           ELSE Itoa(n \div 10) \o <<Digits[(n % 10) + 1]>>

\* strings.TrimSpace
RECURSIVE TrimLeft(_)
TrimLeft(s) == IF s # <<>> /\ Head(s) = " " THEN TrimLeft(Tail(s)) ELSE s
RECURSIVE TrimRight(_)
TrimRight(s) == IF s # <<>> /\ s[Len(s)] = " "
                THEN TrimRight(SubSeq(s, 1, Len(s) - 1)) ELSE s
TrimSpace(s) == TrimRight(TrimLeft(s))

\* strings.Split(s, ","): the pieces between the separators, as a sequence.
RECURSIVE Split(_, _)
Split(s, sep) ==
    IF \E i \in 1..Len(s) : s[i] = sep
    THEN LET i == Min({j \in 1..Len(s) : s[j] = sep})
         IN  <<SubSeq(s, 1, i - 1)>> \o Split(SubSeq(s, i + 1, Len(s)), sep)
    ELSE <<s>>

(***************************************************************************)
(* Paths                                                                   *)
(***************************************************************************)

LastSlash(path) == Max({0} \cup {i \in 1..Len(path) : path[i] = "/"})

\* filepath.Base, for a path without trailing separators
Base(path) ==
    IF path = <<>> THEN <<".">>
    ELSE SubSeq(path, LastSlash(path) + 1, Len(path))

\* filepath.Ext: the suffix beginning at the final dot of the final element
Ext(path) ==
    LET dots == {i \in (LastSlash(path) + 1)..Len(path) : path[i] = "."}
    IN  IF dots = {} THEN <<>> ELSE SubSeq(path, Max(dots), Len(path))

(***************************************************************************)
(* Data model                                                              *)
(***************************************************************************)

\* TodoItem: Tag, Description, File and Date are strings, Line a number.
\* A Date never set is the empty string.
TodoItem(tag, description, file, line, date) ==
    [Tag |-> tag, Description |-> description, File |-> file, Line |-> line,
     Date |-> date]

maxFileSize == 500 * 1024

trackerPath == Str("todo_tracker.json")

(***************************************************************************)
(* Marker extraction: todoPattern = TODO\[(\w+)\]: (.+)                    *)
(***************************************************************************)

IsWord(c) == c \in DOMAIN UpperPos \/ c \in DOMAIN LowerPos
             \/ c \in DOMAIN DigitPos \/ c = "_"

MarkerOpen == Str("TODO[")
MarkerClose == Str("]: ")

\* The first position at or after i that holds no word character.
TagEnd(line, i) ==
    Min({j \in i..(Len(line) + 1) : j = Len(line) + 1 \/ ~IsWord(line[j])})

\* The pattern matches at position i: TODO[ , one or more word characters,
\* "]: " and at least one more character (any character but a newline, and a
\* line holds none).
MatchesAt(line, i) ==
    /\ i + 4 <= Len(line)
    /\ line[i] = "T"
    /\ SubSeq(line, i, i + 4) = MarkerOpen
    /\ LET j == TagEnd(line, i + 5)
       IN  /\ j > i + 5
           /\ j + 3 <= Len(line)
           /\ SubSeq(line, j, j + 2) = MarkerClose

\* todoPattern.FindStringSubmatch(line): the leftmost match, or none.
FindStringSubmatch(line) ==
    LET starts == {i \in 1..Len(line) : MatchesAt(line, i)}
    IN  IF starts = {} THEN [matched |-> FALSE, tag |-> <<>>, description |-> <<>>]
        ELSE LET i == Min(starts)
                 j == TagEnd(line, i + 5)
             IN  [matched |-> TRUE,
                  tag |-> SubSeq(line, i + 5, j - 1),
                  description |-> SubSeq(line, j + 3, Len(line))]

\* The scanner loop over the lines of one file: one item per matching line,
\* Date left unset.
RECURSIVE scanLines(_, _, _)
scanLines(path, lines, lineNum) ==
    IF lineNum > Len(lines) THEN <<>>
    ELSE LET matches == FindStringSubmatch(lines[lineNum])
         IN  (IF matches.matched
              THEN <<TodoItem(matches.tag, matches.description, path, lineNum, <<>>)>>
              ELSE <<>>)
             \o scanLines(path, lines, lineNum + 1)

(***************************************************************************)
(* The deny-list                                                           *)
(***************************************************************************)

\* The package-level blacklist map, as a function from its keys to booleans.
ActionTmp == Str(".action-tmp")
blacklistDefault == [k \in {ActionTmp} |-> TRUE]

\* blacklist[k] of a Go map[string]bool: false for a missing key.
MapGet(m, k) == k \in DOMAIN m /\ m[k]

\* The non-empty trimmed tokens of a comma-separated flag value.
Tokens(arg) ==
    IF arg = <<>> THEN {}
    ELSE LET parts == Split(arg, ",")
         IN  {TrimSpace(parts[i]) : i \in 1..Len(parts)} \ {<<>>}

\* blacklist[trimmed] = value, for every token
SetAll(m, keys, value) ==
    [k \in DOMAIN m \cup keys |-> IF k \in keys THEN value ELSE m[k]]

\* main's flag handling: the blacklist tokens are set to true, then the
\* whitelist tokens are set to false.
setTokens(denied, allowed) ==
    SetAll(SetAll(blacklistDefault, denied, TRUE), allowed, FALSE)

parseFlags(blacklistArg, whitelistArg) ==
    setTokens(Tokens(blacklistArg), Tokens(whitelistArg))

\* The range loop of isInBlacklist: every key of the map, whatever its value.
PrefixKeys(blacklist) == DOMAIN blacklist

\* A deny-list that looks the three names up and never tests a prefix.
isInBlacklistByNameOnly(path, blacklist) ==
    LET baseName == ToLower(Base(path))
        fileExt == ToLower(Ext(path))
    IN  \/ MapGet(blacklist, baseName)
        \/ MapGet(blacklist, fileExt)
        \/ MapGet(blacklist, path)

isInBlacklist(path, blacklist) ==
    LET baseName == ToLower(Base(path))
        fileExt == ToLower(Ext(path))
    IN  \/ MapGet(blacklist, baseName)
        \/ MapGet(blacklist, fileExt)
        \/ MapGet(blacklist, path)
        \/ \E ignore \in PrefixKeys(blacklist) :
              ignore # <<>> /\ HasPrefix(path, ignore)

(***************************************************************************)
(* The reconciler                                                          *)
(***************************************************************************)

\* fmt.Sprintf("%s|%s|%s|%d", t.Tag, t.Description, t.File, t.Line)
Key(t) == t.Tag \o <<"|">> \o t.Description \o <<"|">> \o t.File \o <<"|">>
          \o Itoa(t.Line)

\* A map that holds the last item of old only.
OldMapOfLast(old) ==
    IF old = <<>> THEN <<>>
    ELSE [k \in {Key(old[Len(old)])} |-> old[Len(old)]]

\* oldMap after the first loop: for every key the last item of old with it.
OldMap(old) ==
    [k \in {Key(old[i]) : i \in 1..Len(old)} |->
        old[Max({i \in 1..Len(old) : Key(old[i]) = k})]]

NewDate(oldMap, t, now) ==
    IF Key(t) \in DOMAIN oldMap THEN oldMap[Key(t)].Date ELSE now

\* A reconciler that also carries forward the old items nothing was found for.
updateTodosKeepingOld(old, found, now) ==
    LET oldMap == OldMap(old)
        foundKeys == {Key(found[i]) : i \in 1..Len(found)}
    IN  [i \in 1..Len(found) |-> [found[i] EXCEPT !.Date = NewDate(oldMap, found[i], now)]]
        \o SelectSeq(old, LAMBDA t : Key(t) \notin foundKeys)

updateTodos(old, found, now) ==
    LET oldMap == OldMap(old)
    IN  [i \in 1..Len(found) |-> [found[i] EXCEPT !.Date = NewDate(oldMap, found[i], now)]]

(***************************************************************************)
(* The store: todo_tracker.json                                            *)
(***************************************************************************)

\* encoding/json writes a string between quotes, escapes the quote and the
\* backslash, and writes every byte that is not valid UTF-8 as the six
\* characters of the escape for U+FFFD; a valid rune is written as it is.
EscapedQuote == Str("\\\"")
EscapedBackslash == Str("\\\\")
EscapedInvalid == Str("\\ufffd")
EscapeChar(c) ==
    CASE c = "\"" -> EscapedQuote
      [] c = "\\" -> EscapedBackslash
      [] c = BadByte -> EscapedInvalid
      [] OTHER -> <<c>>

RECURSIVE Escape(_)
Escape(s) == IF s = <<>> THEN <<>> ELSE EscapeChar(Head(s)) \o Escape(Tail(s))

JsonString(s) == <<"\"">> \o Escape(s) \o <<"\"">>

\* The seven lines of one item under SetIndent("", "  ").
ItemOpen == Str("    {")
ItemClose == Str("    }")
ItemCloseComma == Str("    },")
TagField == Str("      \"tag\": ")
DescriptionField == Str("      \"description\": ")
FileField == Str("      \"file\": ")
LineField == Str("      \"line\": ")
DateField == Str("      \"date\": ")
ItemLines(t, last) ==
    << ItemOpen,
       TagField \o JsonString(t.Tag) \o <<",">>,
       DescriptionField \o JsonString(t.Description) \o <<",">>,
       FileField \o JsonString(t.File) \o <<",">>,
       LineField \o Itoa(t.Line) \o <<",">>,
       DateField \o JsonString(t.Date),
       IF last THEN ItemClose ELSE ItemCloseComma >>

RECURSIVE ItemsLines(_, _)
ItemsLines(todos, i) ==
    IF i > Len(todos) THEN <<>>
    ELSE ItemLines(todos[i], i = Len(todos)) \o ItemsLines(todos, i + 1)

\* enc.Encode(tracker): the text of the file, line by line. updateTodos
\* returns a nil slice when nothing was found, which encodes as null.
NullDocument == << Str("{"), Str("  \"todos\": null"), Str("}") >>
DocumentOpen == << Str("{"), Str("  \"todos\": [") >>
DocumentClose == << Str("  ]"), Str("}") >>
Encode(todos) ==
    IF todos = <<>> THEN NullDocument
    ELSE DocumentOpen \o ItemsLines(todos, 1) \o DocumentClose

\* What dec.Decode reads back from the text of a string that was encoded:
\* the string with every invalid byte replaced by U+FFFD.
CoerceChar(c) == IF c = BadByte THEN ReplacementRune ELSE c
ToValidUTF8(s) == [i \in 1..Len(s) |-> CoerceChar(s[i])]

DecodeItem(t) ==
    TodoItem(ToValidUTF8(t.Tag), ToValidUTF8(t.Description), ToValidUTF8(t.File),
             t.Line, ToValidUTF8(t.Date))

\* A store file: whether it exists, the items it was encoded from, its
\* text, and what is wrong with it: "none", "unreadable" (os.Open fails
\* with an error other than not-exist), "syntax" (the text is not a JSON
\* value), "type" (a JSON value with a field of another type than the
\* struct's).
NoStore == [exists |-> FALSE, todos |-> <<>>, text |-> <<>>, fault |-> "none"]

\* dec.Decode(&tracker) of a document whose last item has a number as its
\* date: the decoder skips that field, decodes everything else and reports
\* the mismatch when it is done.
DecodeMistyped(todos) ==
    [i \in 1..Len(todos) |->
        IF i = Len(todos) THEN [DecodeItem(todos[i]) EXCEPT !.Date = <<>>]
        ELSE DecodeItem(todos[i])]

\* loadTracker: an absent file gives the empty tracker and no error, a file
\* that cannot be opened the empty tracker and the error; a document that
\* is not a JSON value leaves the tracker as it was declared; otherwise the
\* tracker is what Decode has put into it, whether Decode failed or not.
loadTracker(st) ==
    IF ~st.exists THEN [Todos |-> <<>>, err |-> FALSE]
    ELSE IF st.fault = "unreadable" THEN [Todos |-> <<>>, err |-> TRUE]
    ELSE IF st.fault = "syntax" THEN [Todos |-> <<>>, err |-> FALSE]
    ELSE IF st.fault = "type"
    THEN [Todos |-> DecodeMistyped(st.todos), err |-> FALSE]
    ELSE [Todos |-> [i \in 1..Len(st.todos) |-> DecodeItem(st.todos[i])],
          err |-> FALSE]

\* saveTracker: os.Create truncates the file and Encode writes the document.
saveTracker(todos) ==
    [exists |-> TRUE, todos |-> todos, text |-> Encode(todos), fault |-> "none"]

RECURSIVE TextSize(_)
TextSize(lines) ==
    IF lines = <<>> THEN 0 ELSE Len(Head(lines)) + 1 + TextSize(Tail(lines))

(***************************************************************************)
(* The file tree and the walk                                              *)
(***************************************************************************)

\* One entry of the tree: its path as the walk reports it, whether it is a
\* directory, the size os.Stat reports, its lines, and the failure reading
\* it meets ("none", "open": os.Open fails, "scan": scanner.Err() is set).
Entry(path, isDir, size, lines, fault) ==
    [path |-> path, isDir |-> isDir, size |-> size, lines |-> lines,
     fault |-> fault]

DirEntry(path) == Entry(path, TRUE, 0, <<>>, "none")

\* The store as an entry of the working directory.
TrackerEntry(st) ==
    Entry(trackerPath, FALSE, TextSize(st.text), st.text,
          IF st.fault = "unreadable" THEN "open" ELSE "none")

\* The first element of a path.
TopName(path) ==
    IF \E i \in 1..Len(path) : path[i] = "/"
    THEN SubSeq(path, 1, Min({i \in 1..Len(path) : path[i] = "/"}) - 1)
    ELSE path

\* The working directory in the order WalkDir visits it (each directory's
\* names sorted, a directory followed by its contents), with the store file
\* in its place when it exists.
Listing(files, st) ==
    IF ~st.exists THEN files
    ELSE LET before == {i \in 1..Len(files) :
                           StrLess(TopName(files[i].path), trackerPath)}
             n == Cardinality(before)
         IN  SubSeq(files, 1, n) \o <<TrackerEntry(st)>>
             \o SubSeq(files, n + 1, Len(files))

InSubtree(dir, path) ==
    IF dir = <<".">> THEN TRUE ELSE HasPrefix(path, dir \o <<"/">>)

\* The entries WalkDir(root) visits when nothing is skipped: root, then
\* everything below it.
Visits(root, files, st) ==
    LET all == Listing(files, st)
    IN  IF root = <<".">> THEN <<DirEntry(root)>> \o all
        ELSE SelectSeq(all, LAMBDA e : e.path = root \/ InSubtree(root, e.path))

\* The index of the first entry after the subtree of entries[i].
RECURSIVE AfterSubtree(_, _, _)
AfterSubtree(entries, dir, i) ==
    IF i <= Len(entries) /\ InSubtree(dir, entries[i].path)
    THEN AfterSubtree(entries, dir, i + 1)
    ELSE i

\* What a scan returns (todos, skippedFiles, err) and what it did on the
\* way: the paths the callback was called with and the files handed to
\* os.Open.
ScanResult(todos, skippedFiles, visited, opened, err) ==
    [todos |-> todos, skippedFiles |-> skippedFiles, visited |-> visited,
     opened |-> opened, err |-> err]

\* A size test that also skips a file of exactly maxFileSize bytes.
TooLargeOrEqual(size) == size >= maxFileSize

\* info.Size() > int64(maxFileSize)
TooLarge(size) == size > maxFileSize

\* The callback of WalkDir, entry by entry.
RECURSIVE walk(_, _, _, _)
walk(entries, i, blacklist, acc0) ==
    IF i > Len(entries) THEN acc0
    ELSE LET e == entries[i]
             acc == [acc0 EXCEPT !.visited = Append(@, e.path)]
         IN  IF isInBlacklist(e.path, blacklist)
             THEN IF e.isDir
                  THEN walk(entries, AfterSubtree(entries, e.path, i + 1),
                            blacklist, acc)
                  ELSE walk(entries, i + 1, blacklist, acc)
             ELSE IF e.isDir
             THEN walk(entries, i + 1, blacklist, acc)
             ELSE IF TooLarge(e.size)
             THEN walk(entries, i + 1, blacklist,
                       [acc EXCEPT !.skippedFiles = Append(@, e.path)])
             ELSE IF e.fault = "open"
             THEN [acc EXCEPT !.opened = Append(@, e.path), !.err = TRUE]
             ELSE LET got == [acc EXCEPT
                                 !.opened = Append(@, e.path),
                                 !.todos = @ \o scanLines(e.path, e.lines, 1)]
                  IN  IF e.fault = "scan"
                      THEN [got EXCEPT !.err = TRUE]
                      ELSE walk(entries, i + 1, blacklist, got)

\* scanTodos(root, blacklist) over the working directory; a root that does
\* not exist is an error of the walk.
scanTodos(root, blacklist, visits) ==
    IF visits = <<>> \/ visits[1].path # root
    THEN ScanResult(<<>>, <<>>, <<>>, <<>>, TRUE)
    ELSE walk(visits, 1, blacklist, ScanResult(<<>>, <<>>, <<>>, <<>>, FALSE))

(***************************************************************************)
(* The allow-list scan (generate_todo_md.go)                               *)
(***************************************************************************)

excludedNames ==
    { Str(".git"), Str(".vscode"), Str(".idea"), Str(".ds_store"),
      Str("thumbs.db"), Str("__pycache__") }

targetExtensions ==
    { Str(".c"), Str(".h"), Str(".cpp"), Str(".hpp"), Str(".java"), Str(".js"),
      Str(".jsx"), Str(".ts"), Str(".tsx"), Str(".py"), Str(".go"), Str(".cs"),
      Str(".rb"), Str(".php"), Str(".sh"), Str(".swift"), Str(".kt"),
      Str(".rs"), Str(".html"), Str(".htm"), Str(".css"), Str(".scss"),
      Str(".less"), Str(".xml"), Str(".yaml"), Str(".yml"), Str(".md"),
      Str(".sql") }

Dockerfile == Str("dockerfile")
Makefile == Str("makefile")

\* shouldFileScan(path): the base name and the extension of the path itself
\* decide; both maps hold true for each of their keys.
shouldFileScan(path) ==
    LET baseName == ToLower(Base(path))
        fileExt == ToLower(Ext(path))
    IN  IF baseName \in excludedNames \/ HasPrefix(baseName, <<".">>)
        THEN FALSE
        ELSE IF baseName = Dockerfile \/ baseName = Makefile
        THEN TRUE
        ELSE fileExt \in targetExtensions

\* The callback of WalkDir in the allow-list program, entry by entry: a
\* directory returns nil, so the walk goes on into it.
RECURSIVE walkAllowList(_, _, _)
walkAllowList(entries, i, acc0) ==
    IF i > Len(entries) THEN acc0
    ELSE LET e == entries[i]
             acc == [acc0 EXCEPT !.visited = Append(@, e.path)]
         IN  IF e.isDir \/ ~shouldFileScan(e.path)
             THEN walkAllowList(entries, i + 1, acc)
             ELSE IF TooLarge(e.size)
             THEN walkAllowList(entries, i + 1,
                                [acc EXCEPT !.skippedFiles = Append(@, e.path)])
             ELSE IF e.fault = "open"
             THEN [acc EXCEPT !.opened = Append(@, e.path), !.err = TRUE]
             ELSE LET got == [acc EXCEPT
                                 !.opened = Append(@, e.path),
                                 !.todos = @ \o scanLines(e.path, e.lines, 1)]
                  IN  IF e.fault = "scan"
                      THEN [got EXCEPT !.err = TRUE]
                      ELSE walkAllowList(entries, i + 1, got)

\* scanTodos(root) of the allow-list program.
scanTodosAllowList(root, visits) ==
    IF visits = <<>> \/ visits[1].path # root
    THEN ScanResult(<<>>, <<>>, <<>>, <<>>, TRUE)
    ELSE walkAllowList(visits, 1, ScanResult(<<>>, <<>>, <<>>, <<>>, FALSE))

(***************************************************************************)
(* The summary on standard output                                          *)
(***************************************************************************)

\* Standard output is modelled as its lines, each ended by a newline; the
\* empty line is the empty string.
EmptyLine == <<>>

\* sort.Strings(tags) over the keys of tagMap: ascending byte order.
RECURSIVE sortStrings(_)
sortStrings(tags) ==
    IF tags = {} THEN <<>>
    ELSE LET least == CHOOSE x \in tags : \A y \in tags \ {x} : StrLess(x, y)
         IN  <<least>> \o sortStrings(tags \ {least})

\* One step of an insertion sort: t moves left past the n items it has to
\* come before.
insert(sorted, t, n) ==
    SubSeq(sorted, 1, Len(sorted) - n) \o <<t>>
    \o SubSeq(sorted, Len(sorted) - n + 1, Len(sorted))

\* A sort that puts the later date first.
RECURSIVE sortSliceDescending(_)
sortSliceDescending(items) ==
    IF items = <<>> THEN <<>>
    ELSE LET t == items[Len(items)]
             sorted == sortSliceDescending(SubSeq(items, 1, Len(items) - 1))
         IN  insert(sorted, t,
                    Cardinality({i \in 1..Len(sorted) :
                                    StrLess(sorted[i].Date, t.Date)}))

\* sort.Slice(items, func(i, j) { items[i].Date < items[j].Date }). The
\* library sorts a slice of fewer than twelve elements by insertion, which
\* is what every section of the model's summaries has.
RECURSIVE sortSlice(_)
sortSlice(items) ==
    IF items = <<>> THEN <<>>
    ELSE LET t == items[Len(items)]
             sorted == sortSlice(SubSeq(items, 1, Len(items) - 1))
         IN  insert(sorted, t,
                    Cardinality({i \in 1..Len(sorted) :
                                    StrLess(t.Date, sorted[i].Date)}))

\* tagMap[tag]: the items of one tag, in the order of todos.
tagMap(todos, tag) == SelectSeq(todos, LAMBDA t : t.Tag = tag)

SummaryHeading == Str("# TODO Summary")
NoTodosFound == Str("No TODOs found.")
TagHeadingOpen == Str("## ")
BulletOpen == Str("- **")
BulletDateClose == Str("** (")
BulletComma == Str(", ")
BulletClose == Str("): ")
SkippedHeading == Str("# Skipped Files (larger than 500 KB)")
SkippedBullet == Str("- ")

\* "## %s\n"
TagHeading(tag) == TagHeadingOpen \o tag

\* "- **%s** (%s:%d, %s): %s\n"
Bullet(t) ==
    BulletOpen \o t.Date \o BulletDateClose \o Base(t.File) \o <<":">>
    \o Itoa(t.Line) \o BulletComma \o t.File \o BulletClose \o t.Description

\* The text the loop over the sorted tags writes.
RECURSIVE Sections(_, _)
Sections(todos, tags) ==
    IF tags = <<>> THEN <<>>
    ELSE LET items == sortSlice(tagMap(todos, Head(tags)))
         IN  <<TagHeading(Head(tags)), EmptyLine>>
             \o [i \in 1..Len(items) |-> Bullet(items[i])]
             \o <<EmptyLine>> \o Sections(todos, Tail(tags))

\* writeMarkdownToStdout(todos): the text it prints; fmt.Println ends the
\* summary with one more newline.
writeMarkdownToStdout(todos) ==
    IF todos = <<>>
    THEN <<SummaryHeading, EmptyLine, NoTodosFound, EmptyLine>>
    ELSE <<SummaryHeading, EmptyLine>>
         \o Sections(todos, sortStrings({todos[i].Tag : i \in 1..Len(todos)}))
         \o <<EmptyLine>>

formatSkippedFilesMarkdown(skippedFiles) ==
    IF skippedFiles = <<>> THEN <<>>
    ELSE <<EmptyLine, SkippedHeading, EmptyLine>>
         \o [i \in 1..Len(skippedFiles) |-> SkippedBullet \o skippedFiles[i]]
         \o <<EmptyLine>>

(***************************************************************************)
(* Bounds and inputs                                                       *)
(***************************************************************************)

\* The days a run can happen on.
MaxDay == 2
\* The longest old and found collections handed to updateTodos alone.
MaxOld == 2
MaxFound == 2

\* time.Now().Format("2006-01-02") on day d of one month
YearMonth == Str("2026-11-0")
FormatDate(d) == YearMonth \o Itoa(d)
Dates == {FormatDate(d) : d \in 1..MaxDay}

PlainLine == Str("// TODO[fix]: x")
NestedLine == Str("# TODO[doc]: how TODO[fix]: y is read")
BadLine == Str("// TODO[fix]: caf") \o <<BadByte>>
CodeLine == Str("package main")

File(path, lines) == Entry(Str(path), FALSE, 100, lines, "none")
SizedFile(path, size, fault) == Entry(Str(path), FALSE, size, <<PlainLine>>, fault)

\* The working directories of the pipeline runs, each in walk order.
Trees ==
    { <<>>,
      << File("a.go", <<CodeLine, PlainLine>>) >>,
      << File("a.go", <<NestedLine>>) >>,
      << File("a.go", <<BadLine, PlainLine>>) >>,
      << File("a.go", <<PlainLine>>), DirEntry(Str("src")),
         SizedFile("src/m.go", 100, "open") >> }

Roots == {Str("."), Str("src")}

(***************************************************************************)
(* The program                                                             *)
(***************************************************************************)

VARIABLES
    files,          \* the working directory, without the store file
    store,          \* todo_tracker.json
    root,           \* the flags of the last run
    blacklistFlag,
    whitelistFlag,
    blacklist,      \* the blacklist map of the last run, after flag parsing
    now,            \* the date of the last run
    entries,        \* what the walk of the last run had before it
    old,            \* tracker.Todos as the last run loaded it
    found,          \* the three results of scanTodos in the last run
    skippedFiles,
    scanErr,
    visited,        \* the paths the walk of the last run reported
    opened,         \* the files the last run handed to os.Open
    updated,        \* the result of updateTodos, when merged
    merged,         \* the last run called updateTodos
    loaded,         \* the last run called loadTracker
    stdout,         \* the lines the last run wrote to standard output
    exitCode,       \* -1 before any run, else the exit status of the last run
    changed         \* the working directory was edited since the last run

vars == <<files, store, root, blacklistFlag, whitelistFlag, blacklist, now,
          entries, old, found, skippedFiles, scanErr, visited, opened, updated,
          merged, loaded, stdout, exitCode, changed>>

NoRun ==
    /\ root = <<>>
    /\ blacklistFlag = <<>>
    /\ whitelistFlag = <<>>
    /\ visited = <<>>
    /\ blacklist = blacklistDefault
    /\ now = <<>>
    /\ entries = <<>>
    /\ old = <<>>
    /\ found = <<>>
    /\ skippedFiles = <<>>
    /\ scanErr = FALSE
    /\ opened = <<>>
    /\ updated = <<>>
    /\ merged = FALSE
    /\ loaded = FALSE
    /\ stdout = <<>>
    /\ exitCode = -1
    /\ changed = FALSE

Init ==
    /\ files \in Trees
    /\ store = NoStore
    /\ NoRun

\* One run of main. createOk: os.Create of the store succeeds.
Main(rootArg, blacklistArg, whitelistArg, nowArg, createOk) ==
    LET bl == parseFlags(blacklistArg, whitelistArg)
        visits == Visits(rootArg, files, store)
        res == scanTodos(rootArg, bl, visits)
        tracker == loadTracker(store)
        upd == updateTodos(tracker.Todos, res.todos, nowArg)
    IN  /\ root' = rootArg
        /\ blacklistFlag' = blacklistArg
        /\ whitelistFlag' = whitelistArg
        /\ visited' = res.visited
        /\ blacklist' = bl
        /\ now' = nowArg
        /\ entries' = visits
        /\ found' = res.todos
        /\ skippedFiles' = res.skippedFiles
        /\ scanErr' = res.err
        /\ opened' = res.opened
        /\ changed' = FALSE
        /\ UNCHANGED files
        /\ IF res.err
           THEN /\ exitCode' = 1
                /\ merged' = FALSE
                /\ loaded' = FALSE
                /\ old' = <<>>
                /\ updated' = <<>>
                /\ stdout' = <<>>
                /\ UNCHANGED store
           ELSE /\ merged' = TRUE
                /\ loaded' = TRUE
                /\ old' = tracker.Todos
                /\ updated' = upd
                /\ IF createOk
                   THEN /\ store' = saveTracker(upd)
                        /\ stdout' = writeMarkdownToStdout(upd)
                               \o formatSkippedFilesMarkdown(res.skippedFiles)
                        /\ exitCode' = 0
                   ELSE /\ exitCode' = 1
                        /\ stdout' = <<>>
                        /\ UNCHANGED store

\* The user edits the working directory between runs.
EditTree ==
    /\ \E t \in Trees \ {files} : files' = t
    /\ changed' = TRUE
    /\ UNCHANGED <<store, root, blacklistFlag, whitelistFlag, blacklist, now,
                   entries, old, found, skippedFiles, scanErr, visited, opened,
                   updated, merged, loaded, stdout, exitCode>>

Run ==
    \E rootArg \in Roots, nowArg \in Dates, createOk \in BOOLEAN :
        Main(rootArg, <<>>, <<>>, nowArg, createOk)

Next == Run \/ EditTree

Spec == Init /\ [][Next]_vars

(***************************************************************************)
(* The reconciler alone: updateTodos on every old and found within bounds  *)
(***************************************************************************)

SeqsUpTo(S, n) == UNION {[1..k -> S] : k \in 0..n}

\* Descriptions and file names with and without the '|' of the lookup key.
MergeTags == {Str("fix")}
MergeDescriptions == {Str("x"), Str("x|y")}
MergeFiles == {Str("y|z"), Str("z")}
MergeLines == {1}

\* What a scan can return: Date unset, no two items on the same line of the
\* same file.
FoundItems ==
    {TodoItem(t, d, f, l, <<>>) :
        t \in MergeTags, d \in MergeDescriptions, f \in MergeFiles, l \in MergeLines}
FoundLists ==
    {fs \in SeqsUpTo(FoundItems, MaxFound) :
        \A i, j \in 1..Len(fs) :
            (fs[i].File = fs[j].File /\ fs[i].Line = fs[j].Line) => i = j}

\* What a store can hold: any items, dated.
OldItems == {[t EXCEPT !.Date = d] : t \in FoundItems, d \in Dates}
OldLists == SeqsUpTo(OldItems, MaxOld)

InitMerge ==
    /\ old \in OldLists
    /\ found \in FoundLists
    /\ now \in Dates
    /\ files = <<>>
    /\ store = NoStore
    /\ root = <<>>
    /\ blacklistFlag = <<>>
    /\ whitelistFlag = <<>>
    /\ blacklist = blacklistDefault
    /\ entries = <<>>
    /\ skippedFiles = <<>>
    /\ scanErr = FALSE
    /\ visited = <<>>
    /\ opened = <<>>
    /\ updated = <<>>
    /\ merged = FALSE
    /\ loaded = FALSE
    /\ stdout = <<>>
    /\ exitCode = -1
    /\ changed = FALSE

Merge ==
    /\ ~merged
    /\ updated' = updateTodos(old, found, now)
    /\ merged' = TRUE
    /\ UNCHANGED <<files, store, root, blacklistFlag, whitelistFlag, blacklist,
                   now, entries, old, found, skippedFiles, scanErr, visited,
                   opened, loaded, stdout, exitCode, changed>>

NextMerge == Merge

SpecMerge == InitMerge /\ [][NextMerge]_vars

(***************************************************************************)
(* Properties of the reconciler                                            *)
(***************************************************************************)

\* Two items agree on tag, description, file and line.
SameItem(a, b) ==
    /\ a.Tag = b.Tag
    /\ a.Description = b.Description
    /\ a.File = b.File
    /\ a.Line = b.Line

OldSame(t) == {j \in 1..Len(old) : SameItem(old[j], t)}

\* C1: every found item gets the date of an old item that agrees with it on
\* tag, description, file and line when old holds one, and now otherwise.
DatesFollowOld ==
    merged =>
        /\ Len(updated) = Len(found)
        /\ \A i \in 1..Len(found) :
              IF OldSame(found[i]) # {}
              THEN \E j \in OldSame(found[i]) : updated[i].Date = old[j].Date
              ELSE updated[i].Date = now

\* C2: the result has one entry per found item, in order, with tag,
\* description, file and line unchanged, and no item that only old holds.
MergedIsFound ==
    merged =>
        /\ Len(updated) = Len(found)
        /\ \A i \in 1..Len(found) : SameItem(updated[i], found[i])
        /\ \A j \in 1..Len(old) :
              (\A i \in 1..Len(found) : ~SameItem(old[j], found[i]))
                  => \A k \in 1..Len(updated) : ~SameItem(old[j], updated[k])

\* C2's case: a merge of two found items, one of them known to old, with an
\* old item that nothing was found for.
MergedIsFoundWitness ==
    /\ merged
    /\ Len(found) = 2
    /\ \E i \in 1..Len(found) : OldSame(found[i]) # {}
    /\ \E j \in 1..Len(old) : \A i \in 1..Len(found) : ~SameItem(old[j], found[i])

\* C3: a date other than now in the result was copied from an old item that
\* agrees with the found item on all four fields.
DateCopiedOnlyFromSameItem ==
    merged =>
        \A i \in 1..Len(updated) :
            updated[i].Date # now =>
                \E j \in OldSame(found[i]) : old[j].Date = updated[i].Date

(***************************************************************************)
(* Properties of repeated runs                                             *)
(***************************************************************************)

\* A step that is a run of main whose exit status is 0, taken after a run
\* whose exit status was 0.
SuccessAfterSuccess == exitCode = 0 /\ exitCode' = 0 /\ ~changed'

\* C4: a second run with the same flags and the same now, with no edit of
\* the working directory in between, merges to exactly the store the first
\* run persisted.
RerunIsIdempotent ==
    [][(/\ SuccessAfterSuccess
        /\ ~changed
        /\ root' = root
        /\ blacklistFlag' = blacklistFlag
        /\ whitelistFlag' = whitelistFlag
        /\ now' = now)
           => updated' = loadTracker(store).Todos]_vars

\* C5: an item found by a successful run and again by the next successful
\* run keeps the date the earlier run gave it.
DateKeptAcrossRuns ==
    [][SuccessAfterSuccess =>
          \A i \in 1..Len(found) : \A j \in 1..Len(found') :
              SameItem(found[i], found'[j]) => updated'[j].Date = updated[i].Date]_vars

(***************************************************************************)
(* One scan of a fresh checkout, under every combination of flags          *)
(***************************************************************************)

\* A tree with names in both letter cases, files at and above the size
\* limit, an oversized file that cannot be opened, and directories two
\* levels deep.
ScanTree ==
    << File("README.md", <<PlainLine>>),
       SizedFile("big.go", maxFileSize + 1, "open"),
       SizedFile("edge.go", maxFileSize, "none"),
       File("main.go", <<CodeLine, PlainLine>>),
       DirEntry(Str("src")),
       File("src/Main.GO", <<PlainLine>>),
       File("src/README.md", <<PlainLine>>),
       DirEntry(Str("src/lib")),
       File("src/lib/u.go", <<PlainLine>>),
       DirEntry(Str("vendor")),
       File("vendor/b.go", <<PlainLine>>),
       SizedFile("vendor/huge.md", maxFileSize + 1, "none") >>

\* The same tree with a file whose read fails.
ScanTreeUnreadable == Append(ScanTree, SizedFile("vendor/z.go", 100, "scan"))

ScanTrees == {ScanTree, ScanTreeUnreadable, SubSeq(ScanTree, 1, 4)}

BlacklistFlags ==
    {<<>>, Str("vendor"), Str("ven"), Str("README.md"), Str("readme.md"),
     Str(" src/lib , .GO"), Str(".md,src/Main.GO")}

WhitelistFlags ==
    {<<>>, Str("vendor"), Str("main.go, utils.go"), Str(".md")}

InitScan ==
    /\ files \in ScanTrees
    /\ store = NoStore
    /\ NoRun

\* The first run on the checkout.
Scan ==
    /\ exitCode = -1
    /\ \E rootArg \in Roots, blacklistArg \in BlacklistFlags,
          whitelistArg \in WhitelistFlags :
          Main(rootArg, blacklistArg, whitelistArg, FormatDate(1), TRUE)

NextScan == Scan

SpecScan == InitScan /\ [][NextScan]_vars

(***************************************************************************)
(* Properties of the scan                                                  *)
(***************************************************************************)

Scanned == exitCode # -1

Elems(seq) == {seq[i] : i \in 1..Len(seq)}

\* The deny-list the flags ask for: the built-in entry and the blacklist
\* tokens.
DenyEntries == DOMAIN blacklistDefault \cup Tokens(blacklistFlag)

\* A deny-list entry k matches a path by base name, extension, exact path
\* or prefix.
EntryMatches(k, path) ==
    \/ k = ToLower(Base(path))
    \/ k = ToLower(Ext(path))
    \/ k = path
    \/ (k # <<>> /\ HasPrefix(path, k))

\* C6: a path that some deny-list entry matches, all of whose matching
\* entries were also given in the whitelist, is not reported as
\* blacklisted.
WhitelistOverridesBlacklist ==
    Scanned =>
        \A i \in 1..Len(entries) :
            LET path == entries[i].path
                matching == {k \in DenyEntries : EntryMatches(k, path)}
            IN  (matching # {} /\ matching \subseteq Tokens(whitelistFlag))
                    => ~isInBlacklist(path, blacklist)

\* C7: a whitelist token that is no deny-list entry changes nothing: the
\* scan gives what it gives without that token.
WhitelistOfUndeniedNameHasNoEffect ==
    Scanned =>
        \A w \in Tokens(whitelistFlag) \ DenyEntries :
            LET without == setTokens(Tokens(blacklistFlag),
                                     Tokens(whitelistFlag) \ {w})
                res == scanTodos(root, without, entries)
            IN  /\ res.todos = found
                /\ res.skippedFiles = skippedFiles
                /\ res.opened = opened
                /\ res.err = scanErr

\* A deny-list entry in force (not whitelisted) that is a prefix of path.
DeniedByPrefix(path) ==
    \E k \in DOMAIN blacklist : blacklist[k] /\ k # <<>> /\ HasPrefix(path, k)

Touched == Elems(opened) \cup Elems(skippedFiles)
           \cup {found[i].File : i \in 1..Len(found)}

\* C8: below a directory whose path a deny-list entry is a prefix of,
\* nothing is opened, found or listed as skipped.
PrefixSkipsSubtree ==
    Scanned =>
        \A i \in 1..Len(entries) :
            (entries[i].isDir /\ DeniedByPrefix(entries[i].path))
                => \A p \in Touched : ~InSubtree(entries[i].path, p)

\* C8's case: the entry "ven" denies the directory vendor by prefix only,
\* vendor holds a file with a marker and an oversized file, and the rest of
\* the tree was scanned.
PrefixSkipsSubtreeWitness ==
    /\ Scanned
    /\ ~scanErr
    /\ found # <<>>
    /\ skippedFiles # <<>>
    /\ \E i \in 1..Len(entries) :
          /\ entries[i].isDir
          /\ entries[i].path # root
          /\ DeniedByPrefix(entries[i].path)
          /\ ~MapGet(blacklist, ToLower(Base(entries[i].path)))
          /\ \E j \in 1..Len(entries) :
                /\ InSubtree(entries[i].path, entries[j].path)
                /\ entries[j].lines # <<>>
          /\ \E j \in 1..Len(entries) :
                /\ InSubtree(entries[i].path, entries[j].path)
                /\ entries[j].size > 512000

\* C9: a blacklist token equal, letter case ignored, to the final segment
\* or to the extension of a path makes isInBlacklist true of the path.
DenyMatchIgnoresCase ==
    Scanned =>
        \A t \in Tokens(blacklistFlag) \ Tokens(whitelistFlag) :
            \A i \in 1..Len(entries) :
                LET path == entries[i].path
                IN  (ToLower(Base(path)) = ToLower(t) \/ ToLower(Ext(path)) = ToLower(t))
                        => isInBlacklist(path, blacklist)

Count(seq, x) == Cardinality({i \in 1..Len(seq) : seq[i] = x})

\* C10: a visited file that the deny-list lets through and that is larger
\* than 512000 bytes is not opened, yields no item and is listed once as
\* skipped; one of at most 512000 bytes is never listed; and a scan fails
\* only at a file that is not larger than 512000 bytes.
LargeFilesAreSkipped ==
    Scanned =>
        /\ \A i \in 1..Len(entries) :
              LET e == entries[i]
              IN  (/\ ~e.isDir
                   /\ e.path \in Elems(visited)
                   /\ ~isInBlacklist(e.path, blacklist))
                      => IF e.size > 512000
                         THEN /\ e.path \notin Elems(opened)
                              /\ \A k \in 1..Len(found) : found[k].File # e.path
                              /\ Count(skippedFiles, e.path) = 1
                         ELSE e.path \notin Elems(skippedFiles)
        /\ (scanErr /\ visited # <<>>) =>
              \E i \in 1..Len(entries) :
                  /\ entries[i].path = visited[Len(visited)]
                  /\ ~entries[i].isDir
                  /\ entries[i].size <= 512000
                  /\ entries[i].fault # "none"

\* C10's case: a scan that passed an oversized file, listed it, went on and
\* opened a file of exactly 512000 bytes.
LargeFilesAreSkippedWitness ==
    /\ Scanned
    /\ ~scanErr
    /\ exitCode = 0
    /\ \E i, j \in 1..Len(entries) :
          /\ entries[i].size > 512000
          /\ entries[i].fault = "open"
          /\ entries[i].path \in Elems(skippedFiles)
          /\ entries[j].size = 512000
          /\ entries[j].path \in Elems(opened)
          /\ \E k \in 1..Len(found) : found[k].File = entries[j].path

(***************************************************************************)
(* The allow-list program (generate_todo_md.go)                            *)
(***************************************************************************)

\* A main that goes on after a failed scan.
scanFailureIgnored(err) == FALSE

\* if err != nil { ...; os.Exit(1) } after scanTodos
scanFailed(err) == err

\* One run of main of the allow-list program, which has the --root flag
\* only.
MainAllowList(rootArg, nowArg, createOk) ==
    LET visits == Visits(rootArg, files, store)
        res == scanTodosAllowList(rootArg, visits)
        tracker == loadTracker(store)
        upd == updateTodos(tracker.Todos, res.todos, nowArg)
    IN  /\ root' = rootArg
        /\ visited' = res.visited
        /\ now' = nowArg
        /\ entries' = visits
        /\ found' = res.todos
        /\ skippedFiles' = res.skippedFiles
        /\ scanErr' = res.err
        /\ opened' = res.opened
        /\ changed' = FALSE
        /\ UNCHANGED <<files, blacklistFlag, whitelistFlag, blacklist>>
        /\ IF scanFailed(res.err)
           THEN /\ exitCode' = 1
                /\ merged' = FALSE
                /\ loaded' = FALSE
                /\ old' = <<>>
                /\ updated' = <<>>
                /\ stdout' = <<>>
                /\ UNCHANGED store
           ELSE /\ merged' = TRUE
                /\ loaded' = TRUE
                /\ old' = tracker.Todos
                /\ updated' = upd
                /\ IF createOk
                   THEN /\ store' = saveTracker(upd)
                        /\ stdout' = writeMarkdownToStdout(upd)
                               \o formatSkippedFilesMarkdown(res.skippedFiles)
                        /\ exitCode' = 0
                   ELSE /\ exitCode' = 1
                        /\ stdout' = <<>>
                        /\ UNCHANGED store

\* A checkout with editor and tool directories, dotfiles and build files,
\* in walk order.
AllowTree ==
    << File(".DS_Store", <<PlainLine>>),
       DirEntry(Str(".git")),
       DirEntry(Str(".git/hooks")),
       File(".git/hooks/pre-push.sh", <<PlainLine>>),
       File(".hidden.go", <<PlainLine>>),
       DirEntry(Str(".vscode")),
       SizedFile(".vscode/big.md", maxFileSize + 1, "none"),
       File("Makefile", <<PlainLine>>),
       File("Thumbs.db", <<PlainLine>>),
       DirEntry(Str("__pycache__")),
       File("__pycache__/m.py", <<PlainLine>>),
       File("main.go", <<CodeLine, PlainLine>>),
       File("notes.txt", <<PlainLine>>),
       DirEntry(Str("src")),
       File("src/.env.sh", <<PlainLine>>),
       File("src/app.py", <<NestedLine>>) >>

\* A checkout of one source file.
PlainTree == << File("main.go", <<PlainLine>>) >>

\* Checkouts with a file outside src that cannot be opened, or cannot be
\* read to its end.
LockedTree ==
    << File("main.go", <<PlainLine>>),
       DirEntry(Str("src")),
       File("src/app.py", <<PlainLine>>),
       SizedFile("zz.go", 100, "open") >>
BrokenTree ==
    << File("main.go", <<PlainLine>>),
       DirEntry(Str("src")),
       File("src/app.py", <<PlainLine>>),
       SizedFile("zz.go", 100, "scan") >>

AllowTrees == {AllowTree, PlainTree, LockedTree, BrokenTree}

\* What can happen to the store file between two runs: its permissions are
\* taken away, its last line is lost, or the date of its last item is
\* replaced by a number.
MistypedDate == Str("20261101")
Unreadable(st) == [st EXCEPT !.fault = "unreadable"]
Truncated(st) ==
    [st EXCEPT !.fault = "syntax", !.text = SubSeq(@, 1, Len(@) - 1)]
Mistyped(st) ==
    [st EXCEPT !.fault = "type",
               !.text = [@ EXCEPT ![Len(@) - 3] = DateField \o MistypedDate]]

InitAllowList ==
    /\ files \in AllowTrees
    /\ store = NoStore
    /\ NoRun

RunAllowList ==
    \E rootArg \in Roots, nowArg \in Dates, createOk \in BOOLEAN :
        MainAllowList(rootArg, nowArg, createOk)

DamageStore ==
    /\ store.exists
    /\ store.fault = "none"
    /\ \/ store' = Unreadable(store)
       \/ store' = Truncated(store)
       \/ store.todos # <<>> /\ store' = Mistyped(store)
    /\ changed' = TRUE
    /\ UNCHANGED <<files, root, blacklistFlag, whitelistFlag, blacklist, now,
                   entries, old, found, skippedFiles, scanErr, visited, opened,
                   updated, merged, loaded, stdout, exitCode>>

NextAllowList == RunAllowList \/ DamageStore

SpecAllowList == InitAllowList /\ [][NextAllowList]_vars

(***************************************************************************)
(* Properties of the allow-list scan                                       *)
(***************************************************************************)

ToolDirectories ==
    { Str(".git"), Str(".vscode"), Str(".idea"), Str("__pycache__") }

\* The path is a dotfile or one of the fixed tool files, or lies inside one
\* of the fixed tool directories.
Excluded(path) ==
    LET names == Split(path, "/")
    IN  \/ HasPrefix(Base(path), <<".">>)
        \/ ToLower(Base(path)) \in excludedNames
        \/ \E i \in 1..(Len(names) - 1) : names[i] \in ToolDirectories

\* C11: a scan of the allow-list program returns no item and no skipped-file
\* entry whose path is a dotfile, a fixed tool file, or inside a fixed tool
\* directory.
ExcludedPathsAreNeverReturned ==
    Scanned =>
        /\ \A i \in 1..Len(found) : ~Excluded(found[i].File)
        /\ \A i \in 1..Len(skippedFiles) : ~Excluded(skippedFiles[i])

(***************************************************************************)
(* Properties of the load                                                  *)
(***************************************************************************)

\* The store a run is about to load is absent, unreadable or not the
\* expected document.
StoreUnusable == ~store.exists \/ store.fault # "none"

\* A step that is a run of main whose scan succeeded.
RunPastScan == ~changed' /\ exitCode' # -1 /\ ~scanErr'

\* C12: a run that finds the store absent, unreadable or undecodable loads
\* no old items, dates every found item now, and goes on to save and
\* render: it ends with status 0 and a summary unless the store cannot be
\* created.
UnusableStoreIsEmptyTracker ==
    [][(StoreUnusable /\ RunPastScan) =>
          /\ loaded'
          /\ merged'
          /\ old' = <<>>
          /\ \A i \in 1..Len(updated') : updated'[i].Date = now'
          /\ exitCode' = 0 =>
                /\ store' = saveTracker(updated')
                /\ stdout' # <<>>]_vars

(***************************************************************************)
(* Properties of a failed scan                                             *)
(***************************************************************************)

\* A step that is a run of main whose scan failed.
RunFailedScan == ~changed' /\ exitCode' # -1 /\ scanErr'

MaxRender == 3

\* Tags in three spellings, files of which two share a base name.
RenderTags == {Str("Fix"), Str("doc"), Str("fix")}
RenderFiles == {Str("a.go"), Str("b/a.go"), Str("c.go")}

\* What updateTodos can return: dated items, no two on the same line of the
\* same file, in any order.
RenderLists ==
    UNION {{[i \in 1..k |-> TodoItem(tg[i], <<"x">>, fl[i], 1, dt[i])] :
               tg \in [1..k -> RenderTags],
               fl \in {f \in [1..k -> RenderFiles] :
                          \A i, j \in 1..k : f[i] = f[j] => i = j},
               dt \in [1..k -> Dates]} : k \in 0..MaxRender}

InitRender ==
    /\ updated \in RenderLists
    /\ merged = TRUE
    /\ stdout = <<>>
    /\ files = <<>>
    /\ store = NoStore
    /\ root = <<>>
    /\ blacklistFlag = <<>>
    /\ whitelistFlag = <<>>
    /\ blacklist = blacklistDefault
    /\ now = <<>>
    /\ entries = <<>>
    /\ old = <<>>
    /\ found = <<>>
    /\ skippedFiles = <<>>
    /\ scanErr = FALSE
    /\ visited = <<>>
    /\ opened = <<>>
    /\ loaded = FALSE
    /\ exitCode = -1
    /\ changed = FALSE

Render ==
    /\ stdout = <<>>
    /\ stdout' = writeMarkdownToStdout(updated)
    /\ UNCHANGED <<files, store, root, blacklistFlag, whitelistFlag, blacklist,
                   now, entries, old, found, skippedFiles, scanErr, visited,
                   opened, updated, merged, loaded, exitCode, changed>>

NextRender == Render

SpecRender == InitRender /\ [][NextRender]_vars

(***************************************************************************)
(* Properties of the summary                                               *)
(***************************************************************************)

Rendered == stdout # <<>>

\* The lines of standard output that are section headings, and the tag each
\* one names.
HeadingLines == {i \in 1..Len(stdout) : HasPrefix(stdout[i], TagHeadingOpen)}
HeadingTag(i) == SubSeq(stdout[i], Len(TagHeadingOpen) + 1, Len(stdout[i]))

\* The lines that are list entries.
BulletLines == {i \in 1..Len(stdout) : HasPrefix(stdout[i], BulletOpen)}

\* The heading line of the section that line i is in, 0 before the first.
SectionOf(i) == Max({0} \cup {h \in HeadingLines : h < i})

\* The lines on which item t is written.
LinesOf(t) == {i \in 1..Len(stdout) : stdout[i] = Bullet(t)}

\* C14: the summary starts with the heading; for the empty collection the
\* only other text is "No TODOs found."; otherwise there is one section per
\* distinct tag, the sections are in ascending byte order of their tags,
\* every item is written once and in the section of its tag, nothing else
\* is listed, and in a section an item of a smaller date string comes
\* before an item of a larger one.
SummaryIsGroupedAndSorted ==
    Rendered =>
        /\ stdout[1] = SummaryHeading
        /\ IF updated = <<>>
           THEN SelectSeq(stdout, LAMBDA l : l # EmptyLine)
                    = <<SummaryHeading, NoTodosFound>>
           ELSE /\ {HeadingTag(h) : h \in HeadingLines}
                       = {updated[k].Tag : k \in 1..Len(updated)}
                /\ \A g, h \in HeadingLines :
                      g < h => StrLess(HeadingTag(g), HeadingTag(h))
                /\ \A k \in 1..Len(updated) :
                      /\ Cardinality(LinesOf(updated[k])) = 1
                      /\ \A i \in LinesOf(updated[k]) :
                            /\ SectionOf(i) # 0
                            /\ HeadingTag(SectionOf(i)) = updated[k].Tag
                /\ Cardinality(BulletLines) = Len(updated)
                /\ \A k, l \in 1..Len(updated) :
                      (/\ updated[k].Tag = updated[l].Tag
                       /\ StrLess(updated[k].Date, updated[l].Date))
                          => \A i \in LinesOf(updated[k]),
                                j \in LinesOf(updated[l]) : i < j

\* C14's case: a summary of three items in two sections, written from a
\* collection that had the larger tag first and, within one tag, the later
\* date first.
SummaryIsGroupedAndSortedWitness ==
    /\ Rendered
    /\ Len(updated) = 3
    /\ Cardinality(HeadingLines) = 2
    /\ StrLess(updated[3].Tag, updated[1].Tag)
    /\ updated[1].Tag = updated[2].Tag
    /\ StrLess(updated[2].Date, updated[1].Date)

(***************************************************************************)
(* Properties of the order of old                                          *)
(***************************************************************************)

\* Every ordering of a collection.
Orderings(s) ==
    {[i \in 1..Len(s) |-> s[f[i]]] :
        f \in {g \in [1..Len(s) -> 1..Len(s)] :
                  \A i, j \in 1..Len(s) : g[i] = g[j] => i = j}}

\* C15 as stated: the merge gives the same result for every ordering of
\* old, whether or not two old items share a key.
MergeIgnoresOrderOfOld ==
    merged =>
        \A old2 \in Orderings(old) : updateTodos(old2, found, now) = updated

\* Old items that share a lookup key carry the same date.
OneDatePerKey ==
    \A i, j \in 1..Len(old) :
        Key(old[i]) = Key(old[j]) => old[i].Date = old[j].Date

\* C15, amended: the merge gives the same result for every ordering of an
\* old collection in which items that share a lookup key carry the same
\* date.
MergeIgnoresOrderOfOldWithOneDatePerKey ==
    (merged /\ OneDatePerKey) =>
        \A old2 \in Orderings(old) : updateTodos(old2, found, now) = updated

\* The amended C15's case: two old items of different dates and so of
\* different keys, and a found item that took its date from the first.
MergeIgnoresOrderOfOldWitness ==
    /\ merged
    /\ OneDatePerKey
    /\ Len(old) = 2
    /\ old[1] # old[2]
    /\ old[1].Date # old[2].Date
    /\ \E i \in 1..Len(updated) :
          /\ Key(found[i]) = Key(old[1])
          /\ updated[i].Date = old[1].Date
          /\ updated[i].Date # now

====
